---- MODULE Spec2Model ----
(***************************************************************************)
(* Model of backend/main.py: the compliance-analysis pipeline of           *)
(* POST /api/analyze.                                                      *)
(*                                                                         *)
(*   Segmenter   split_into_chunks           (specification SpecSeg)       *)
(*   Parser      parse_compliance_analysis   (specification SpecParse)     *)
(*   Dispatcher  analyze_compliance, process_chunk, make_api_request       *)
(*                                           (specification Spec)          *)
(*   Upload      analyze_traffic, analyze_traffic_data                     *)
(*                                           (specification SpecUpload)    *)
(*   Search      search_policies             (specification SpecSearch)    *)
(*                                                                         *)
(* A Python str is a sequence of one-character strings.  An analysis text  *)
(* handled by the parser is a sequence of lines, a line a sequence of      *)
(* word tokens.                                                            *)
(***************************************************************************)
EXTENDS Integers, Sequences, FiniteSets, TLC

VARIABLES
    seg,            \* split_into_chunks: its arguments, locals and position
    par,            \* parse_compliance_analysis: its argument, locals and position
    env,            \* the module globals the handler reads
    request,        \* the AnalyzeRequest
    pc,             \* analyze_compliance: its position
    process_chunks, \* analyze_compliance: the chunks of the request
    tasks,          \* the process_chunk call of each chunk
    sem,            \* the value of asyncio.Semaphore(3)
    all_analyses,   \* analyze_compliance: the merged analyses
    response,       \* what POST /api/analyze answers
    obs,            \* what an observer of the run has seen (not program state)
    upload_history, \* the module global upload_history: client id -> last timestamp
    clock,          \* what datetime.now() returns, in seconds
    uploads,        \* the analyze_traffic calls suspended at await file.read()
    answered,       \* what POST /api/sentinel/analyze answered last
    throttle_log,   \* what an observer of the throttle has seen (not program state)
    search          \* search_policies: its request, position and answer

(***************************************************************************)
(* Bounds of the model.                                                    *)
(***************************************************************************)
\* longest text given to split_into_chunks
MaxTextLen == 5
\* largest max_length given to split_into_chunks
MaxMaxLength == 3
\* most lines of an analysis given to parse_compliance_analysis
MaxLines == 3
\* most chunks of an accepted analyze request
MaxChunks == 4
\* the chunk size and the longest accepted technicalProcess of the dispatcher
\* model, scaled down from MAX_CHUNK_SIZE = 400 and 4000 characters
ChunkSize == 3

\* program constants
MAX_RETRIES == 3
SemaphoreValue == 3

\* the variables of the upload and the search endpoints
evars == <<upload_history, clock, uploads, answered, throttle_log, search>>

\* the variables of the dispatcher and of the other endpoints
dvars == <<env, request, pc, process_chunks, tasks, sem, all_analyses, response, obs, evars>>

(***************************************************************************)
(* str helpers                                                             *)
(***************************************************************************)
Alphabet == {"a", "b", " ", ".", "\n"}

IsSpace(c) == c \in {" ", "\n"}

\* str.replace(old, new) for one-character old and new
RECURSIVE Replace(_, _, _)
Replace(s, old, new) ==
    IF s = <<>> THEN <<>>
    ELSE <<IF Head(s) = old THEN new ELSE Head(s)>> \o Replace(Tail(s), old, new)

RECURSIVE LStrip(_)
LStrip(s) == IF s # <<>> /\ IsSpace(Head(s)) THEN LStrip(Tail(s)) ELSE s

RECURSIVE RStrip(_)
RStrip(s) ==
    IF s # <<>> /\ IsSpace(s[Len(s)]) THEN RStrip(SubSeq(s, 1, Len(s) - 1)) ELSE s

\* str.strip()
Strip(s) == RStrip(LStrip(s))

\* the length of the run of whitespace that starts at position p of s
RECURSIVE SpaceRun(_, _)
SpaceRun(s, p) ==
    IF p <= Len(s) /\ IsSpace(s[p]) THEN 1 + SpaceRun(s, p + 1) ELSE 0

\* str.split(): the maximal runs of non-whitespace, cur being the run so far
RECURSIVE SplitWords(_, _)
SplitWords(s, cur) ==
    IF s = <<>> THEN (IF cur = <<>> THEN <<>> ELSE <<cur>>)
    ELSE IF IsSpace(Head(s))
         THEN (IF cur = <<>> THEN <<>> ELSE <<cur>>) \o SplitWords(Tail(s), <<>>)
         ELSE SplitWords(Tail(s), Append(cur, Head(s)))

\* ' '.join(parts)
RECURSIVE JoinSpace(_)
JoinSpace(parts) ==
    IF parts = <<>> THEN <<>>
    ELSE IF Len(parts) = 1 THEN Head(parts)
    ELSE Head(parts) \o <<" ">> \o JoinSpace(Tail(parts))

\* re.sub(r'\s+', ' ', s)
RECURSIVE CollapseSpace(_)
CollapseSpace(s) ==
    IF s = <<>> THEN <<>>
    ELSE IF IsSpace(Head(s))
         THEN <<" ">> \o CollapseSpace(SubSeq(s, 1 + SpaceRun(s, 1), Len(s)))
         ELSE <<Head(s)>> \o CollapseSpace(Tail(s))

(***************************************************************************)
(* Segmenter: split_into_chunks                                            *)
(***************************************************************************)
\* The length of the match of the delimiter pattern at position p, 0 for no
\* match.  The alternatives are tried in the order they are written:
\*   (?<=[.!?])\s+ | \.\s+ | \?\s+ | \!\s+ | ;\s+ | \n+ | ...
\* (the last three alternatives, '. ', '? ' and '! ', are prefixes of earlier ones).
DelimiterLen(s, p) ==
    IF p > 1 /\ s[p - 1] \in {".", "!", "?"} /\ IsSpace(s[p])
    THEN SpaceRun(s, p)
    ELSE IF s[p] \in {".", "?", "!", ";"} /\ SpaceRun(s, p + 1) > 0
    THEN 1 + SpaceRun(s, p + 1)
    ELSE IF s[p] = "\n"
    THEN 1
    ELSE 0

\* re.split(delimiters, s): scan from p, the current piece starting at start
RECURSIVE ReSplit(_, _, _)
ReSplit(s, p, start) ==
    IF p > Len(s) THEN <<SubSeq(s, start, Len(s))>>
    ELSE LET m == DelimiterLen(s, p)
         IN  IF m > 0
             THEN <<SubSeq(s, start, p - 1)>> \o ReSplit(s, p + m, p + m)
             ELSE ReSplit(s, p + 1, start)

\* [s.strip() for s in sentences if s.strip()]
RECURSIVE StripNonEmpty(_)
StripNonEmpty(pieces) ==
    IF pieces = <<>> THEN <<>>
    ELSE (IF Strip(Head(pieces)) = <<>> THEN <<>> ELSE <<Strip(Head(pieces))>>)
         \o StripNonEmpty(Tail(pieces))

\* lines 113-118: normalise, split at the delimiters, keep the non-empty pieces
SplitSentences(text) ==
    LET t == Strip(Replace(text, "\n", " "))
    IN  StripNonEmpty(ReSplit(t, 1, 1))

\* ' '.join(parts) + '.'
MakeChunk(parts) == JoinSpace(parts) \o <<".">>

\* lines 133-142: one word of an over-long sentence
WordStep(st, word, max_length) ==
    LET word_length == Len(word) + 1
    IN  IF st.temp_length + word_length > max_length
        THEN [chunks |-> IF st.temp_chunk # <<>>
                         THEN Append(st.chunks, MakeChunk(st.temp_chunk))
                         ELSE st.chunks,
              temp_chunk |-> <<word>>,
              temp_length |-> word_length]
        ELSE [chunks |-> st.chunks,
              temp_chunk |-> Append(st.temp_chunk, word),
              temp_length |-> st.temp_length + word_length]

RECURSIVE WordLoop(_, _, _)
WordLoop(st, words, max_length) ==
    IF words = <<>> THEN st
    ELSE WordLoop(WordStep(st, Head(words), max_length), Tail(words), max_length)

\* lines 128-146: a sentence longer than max_length is split at its words and its
\* pieces are appended to chunks; current_chunk is left as it is
LongSentence(st, sentence, max_length) ==
    LET w == WordLoop([chunks |-> st.chunks, temp_chunk |-> <<>>, temp_length |-> 0],
                      SplitWords(sentence, <<>>), max_length)
    IN  [st EXCEPT !.chunks = IF w.temp_chunk # <<>>
                              THEN Append(w.chunks, MakeChunk(w.temp_chunk))
                              ELSE w.chunks]

\* lines 149-156: greedy packing of a sentence that fits
PackSentence(st, sentence, max_length) ==
    IF st.current_length + Len(sentence) > max_length
    THEN [st EXCEPT !.chunks = IF st.current_chunk # <<>>
                               THEN Append(st.chunks, MakeChunk(st.current_chunk))
                               ELSE st.chunks,
                    !.current_chunk = <<sentence>>,
                    !.current_length = Len(sentence)]
    ELSE [st EXCEPT !.current_chunk = Append(st.current_chunk, sentence),
                    !.current_length = st.current_length + Len(sentence)]

\* lines 124-156: the body of the loop over the sentences
SentenceStep(st, sentence, max_length) ==
    IF Len(sentence) > max_length
    THEN LongSentence(st, sentence, max_length)
    ELSE PackSentence(st, sentence, max_length)

\* lines 158-162: add the last chunk
FinalChunks(st) ==
    IF st.current_chunk # <<>>
    THEN Append(st.chunks, MakeChunk(st.current_chunk))
    ELSE st.chunks

SegStart == [chunks |-> <<>>, current_chunk |-> <<>>, current_length |-> 0]

RECURSIVE SentenceLoop(_, _, _)
SentenceLoop(st, sentences, max_length) ==
    IF sentences = <<>> THEN st
    ELSE SentenceLoop(SentenceStep(st, Head(sentences), max_length),
                      Tail(sentences), max_length)

split_into_chunks(text, max_length) ==
    FinalChunks(SentenceLoop(SegStart, SplitSentences(text), max_length))

(***************************************************************************)
(* The segmenter as a state machine: one step per sentence of the loop.    *)
(***************************************************************************)
RECURSIVE StringsUpTo(_)
StringsUpTo(n) ==
    IF n = 0 THEN {<<>>}
    ELSE LET shorter == StringsUpTo(n - 1)
         IN  shorter \cup {Append(s, c) : s \in shorter, c \in Alphabet}

SegIdle ==
    [pc |-> "idle", text |-> <<>>, max_length |-> 0, sentences |-> <<>>,
     chunks |-> <<>>, current_chunk |-> <<>>, current_length |-> 0]

\* the handler and the parser are idle while the segmenter is checked
SegInit ==
    /\ \E text \in StringsUpTo(MaxTextLen), max_length \in 1..MaxMaxLength :
           seg = [SegIdle EXCEPT !.pc = "start", !.text = text, !.max_length = max_length]
    /\ par = [pc |-> "idle", analysis |-> <<>>, j |-> 0,
              result |-> [regulations |-> <<>>, technicalRequirements |-> <<>>,
                          nextSteps |-> <<>>],
              current_section |-> "none", current_regulation |-> <<>>, started |-> <<>>]
    /\ env = [configured |-> FALSE, request_timeout_bound |-> FALSE]
    /\ request = [technicalProcess |-> <<>>]
    /\ pc = "idle"
    /\ process_chunks = <<>>
    /\ tasks = <<>>
    /\ sem = 0
    /\ all_analyses = <<>>
    /\ response = [status |-> 0, summary |-> <<>>]
    /\ obs = [elapsed |-> FALSE, out_of_order |-> FALSE, attempt_failed |-> FALSE]
    /\ upload_history = [c \in {} |-> 0]
    /\ clock = 0
    /\ uploads = <<>>
    /\ answered = [status |-> 0]
    /\ throttle_log = [passed_at |-> <<>>, earlier |-> <<>>]
    /\ search = [pc |-> "idle"]

SegLocals == [chunks |-> seg.chunks, current_chunk |-> seg.current_chunk,
              current_length |-> seg.current_length]

SegAfter(st) ==
    [seg EXCEPT !.chunks = st.chunks, !.current_chunk = st.current_chunk,
                !.current_length = st.current_length,
                !.sentences = Tail(seg.sentences)]

\* lines 113-122
SegSplit ==
    /\ seg.pc = "start"
    /\ seg' = [seg EXCEPT !.pc = "loop", !.sentences = SplitSentences(seg.text)]
    /\ UNCHANGED <<par, dvars>>

\* lines 128-146
SegLongSentence ==
    /\ seg.pc = "loop"
    /\ seg.sentences # <<>>
    /\ Len(Head(seg.sentences)) > seg.max_length
    /\ seg' = SegAfter(SentenceStep(SegLocals, Head(seg.sentences), seg.max_length))
    /\ UNCHANGED <<par, dvars>>

\* lines 149-156
SegPackSentence ==
    /\ seg.pc = "loop"
    /\ seg.sentences # <<>>
    /\ Len(Head(seg.sentences)) <= seg.max_length
    /\ seg' = SegAfter(SentenceStep(SegLocals, Head(seg.sentences), seg.max_length))
    /\ UNCHANGED <<par, dvars>>

\* lines 158-162
SegReturn ==
    /\ seg.pc = "loop"
    /\ seg.sentences = <<>>
    /\ seg' = [seg EXCEPT !.pc = "done", !.chunks = FinalChunks(SegLocals),
                          !.current_chunk = <<>>, !.current_length = 0]
    /\ UNCHANGED <<par, dvars>>

(***************************************************************************)
(* Response Parser: parse_compliance_analysis, determine_priority          *)
(*                                                                         *)
(* analysis.split("\n\n") and section.strip().split("\n") visit the lines  *)
(* of the text in document order; an analysis is the sequence of its       *)
(* lines, <<>> a blank line, and a line the sequence of its word tokens.   *)
(***************************************************************************)
\* the search phrases a token holds as substrings
Phrases(tok) ==
    IF tok = "ISOLATED" THEN {"ISOLATED", "ISO"} ELSE {tok}

\* phrase in line
Contains(line, phrase) == \E k \in 1..Len(line) : phrase \in Phrases(line[k])

\* str.lower() of a token
Lower(tok) ==
    IF tok = "Critical" THEN "critical"
    ELSE IF tok = "URGENT" THEN "urgent"
    ELSE tok

LowerLine(line) == [k \in 1..Len(line) |-> Lower(line[k])]

determine_priority_without_critical(text) ==
    LET text_lower == LowerLine(text)
    IN  IF \E word \in {"high priority", "urgent", "immediate"} :
               Contains(text_lower, word)
        THEN "high"
        ELSE IF \E word \in {"moderate", "medium priority", "important"} :
                    Contains(text_lower, word)
        THEN "medium"
        ELSE "low"

\* lines 426-433
determine_priority(text) ==
    LET text_lower == LowerLine(text)
    IN  IF \E word \in {"critical", "high priority", "urgent", "immediate"} :
               Contains(text_lower, word)
        THEN "high"
        ELSE IF \E word \in {"moderate", "medium priority", "important"} :
                    Contains(text_lower, word)
        THEN "medium"
        ELSE "low"

\* line 382 and line 385
IsTechnicalHeader(line) ==
    Contains(line, "Technical Requirements:") \/ Contains(line, "Technical Implementation:")

IsStepsHeader(line) ==
    Contains(line, "Next Steps:") \/ Contains(line, "Recommended Steps:")

\* line 390
IsRegulationLine(line) ==
    \E reg \in {"GDPR", "CCPA", "HIPAA", "PCI DSS", "SOC 2", "ISO"} : Contains(line, reg)

\* ":" in line
HasColon(line) == \E k \in 1..Len(line) : line[k] = ":"

FirstColon(line) == CHOOSE k \in 1..Len(line) : line[k] = ":" /\ \A m \in 1..(k - 1) : line[m] # ":"

\* line.split(":")[0].strip()
BeforeColon(line) ==
    IF HasColon(line) THEN SubSeq(line, 1, FirstColon(line) - 1) ELSE line

\* line.split(":", 1)[1].strip()
AfterColon(line) == SubSeq(line, FirstColon(line) + 1, Len(line))

\* line.strip("- ")
RECURSIVE StripDashes(_)
StripDashes(line) ==
    IF line # <<>> /\ Head(line) = "-" THEN StripDashes(Tail(line))
    ELSE IF line # <<>> /\ line[Len(line)] = "-"
         THEN StripDashes(SubSeq(line, 1, Len(line) - 1))
         ELSE line

\* lines 361-370; current_regulation is <<>> for None and <<entry>> otherwise
ParStart ==
    [result |-> [regulations |-> <<>>, technicalRequirements |-> <<>>, nextSteps |-> <<>>],
     current_section |-> "none",
     current_regulation |-> <<>>]

FlushOpenRegulation_dropped(st) == st.result

\* lines 392-393 and 421-422: append the open entry, if any, to the report
FlushOpenRegulation(st) ==
    IF st.current_regulation # <<>>
    THEN [st.result EXCEPT !.regulations = Append(@, st.current_regulation[1])]
    ELSE st.result

\* lines 396-405.  The fields line and attributed are bookkeeping of the model: the
\* number of the line that started the entry, and the numbers of the later lines that
\* lines 414-418 put into it.
NewRegulation(line, j) ==
    [name |-> BeforeColon(line),
     relevance |-> IF HasColon(line) THEN AfterColon(line) ELSE <<>>,
     requirements |-> <<>>,
     priority |-> determine_priority(line),
     line |-> j,
     attributed |-> {}]

\* lines 414-418: a line attributed to the open regulation
Attribute(entry, line, j) ==
    IF entry.relevance = <<>> /\ HasColon(line)
    THEN [entry EXCEPT !.relevance = AfterColon(line), !.attributed = @ \cup {j}]
    ELSE [entry EXCEPT !.requirements = Append(@, StripDashes(line)),
                       !.attributed = @ \cup {j}]

\* lines 374-418: the body of the loop, for line number j
ScanLine(st, line, j) ==
    IF line = <<>> THEN st
    ELSE IF IsTechnicalHeader(line) THEN [st EXCEPT !.current_section = "technical"]
    ELSE IF IsStepsHeader(line) THEN [st EXCEPT !.current_section = "steps"]
    ELSE IF IsRegulationLine(line)
    THEN [st EXCEPT !.result = FlushOpenRegulation(st),
                    !.current_regulation = <<NewRegulation(line, j)>>]
    ELSE IF st.current_section = "technical" /\ StripDashes(line) # <<>>
    THEN [st EXCEPT !.result.technicalRequirements = Append(@, StripDashes(line))]
    ELSE IF st.current_section = "steps" /\ StripDashes(line) # <<>>
    THEN [st EXCEPT !.result.nextSteps = Append(@, StripDashes(line))]
    ELSE IF st.current_regulation # <<>> /\ StripDashes(line) # <<>>
    THEN [st EXCEPT !.current_regulation = <<Attribute(@[1], line, j)>>]
    ELSE st

RECURSIVE ScanLoop(_, _, _)
ScanLoop(st, lines, j) ==
    IF j > Len(lines) THEN st
    ELSE ScanLoop(ScanLine(st, lines[j], j), lines, j + 1)

\* lines 358-424
parse_compliance_analysis(analysis) ==
    FlushOpenRegulation(ScanLoop(ParStart, analysis, 1))

(***************************************************************************)
(* The parser as a state machine: one step per line of the scan.           *)
(***************************************************************************)
ParserLines ==
    { <<>>,
      <<"Technical Requirements:">>,
      <<"Next Steps:">>,
      <<"GDPR", ":", "data">>,
      <<"HIPAA">>,
      <<"moderate", "CCPA", ":">>,
      <<"ISO", ":", "critical", "compliance", "gap">>,
      <<"-", "critical", "compliance", "gap">>,
      <<"-", "encryption">>,
      <<"scope", ":", "records">>,
      <<"ISOLATED", "Critical">>,
      <<"-">> }

RECURSIVE LinesUpTo(_)
LinesUpTo(n) ==
    IF n = 0 THEN {<<>>}
    ELSE LET shorter == LinesUpTo(n - 1)
         IN  shorter \cup {Append(ls, l) : ls \in shorter, l \in ParserLines}

\* started: the line numbers at which the scan started a regulation entry, in order
ParIdle ==
    [pc |-> "idle", analysis |-> <<>>, j |-> 0, result |-> ParStart.result,
     current_section |-> "none", current_regulation |-> <<>>, started |-> <<>>]

\* the handler and the segmenter are idle while the parser is checked
ParInit ==
    /\ \E analysis \in LinesUpTo(MaxLines) :
           par = [ParIdle EXCEPT !.pc = "scan", !.analysis = analysis, !.j = 1]
    /\ seg = SegIdle
    /\ env = [configured |-> FALSE, request_timeout_bound |-> FALSE]
    /\ request = [technicalProcess |-> <<>>]
    /\ pc = "idle"
    /\ process_chunks = <<>>
    /\ tasks = <<>>
    /\ sem = 0
    /\ all_analyses = <<>>
    /\ response = [status |-> 0, summary |-> <<>>]
    /\ obs = [elapsed |-> FALSE, out_of_order |-> FALSE, attempt_failed |-> FALSE]
    /\ upload_history = [c \in {} |-> 0]
    /\ clock = 0
    /\ uploads = <<>>
    /\ answered = [status |-> 0]
    /\ throttle_log = [passed_at |-> <<>>, earlier |-> <<>>]
    /\ search = [pc |-> "idle"]

ParLocals ==
    [result |-> par.result, current_section |-> par.current_section,
     current_regulation |-> par.current_regulation]

ParLine == par.analysis[par.j]

ParAfter(st) ==
    [par EXCEPT !.result = st.result, !.current_section = st.current_section,
                !.current_regulation = st.current_regulation, !.j = par.j + 1]

ParScanning == par.pc = "scan" /\ par.j <= Len(par.analysis)

\* lines 378-379
ParSkipEmpty ==
    /\ ParScanning
    /\ ParLine = <<>>
    /\ par' = ParAfter(ScanLine(ParLocals, ParLine, par.j))
    /\ UNCHANGED <<seg, dvars>>

\* lines 382-387
ParSectionHeader ==
    /\ ParScanning
    /\ ParLine # <<>>
    /\ IsTechnicalHeader(ParLine) \/ IsStepsHeader(ParLine)
    /\ par' = ParAfter(ScanLine(ParLocals, ParLine, par.j))
    /\ UNCHANGED <<seg, dvars>>

\* lines 390-407
ParRegulationLine ==
    /\ ParScanning
    /\ ParLine # <<>>
    /\ ~(IsTechnicalHeader(ParLine) \/ IsStepsHeader(ParLine))
    /\ IsRegulationLine(ParLine)
    /\ par' = [ParAfter(ScanLine(ParLocals, ParLine, par.j))
                  EXCEPT !.started = Append(par.started, par.j)]
    /\ UNCHANGED <<seg, dvars>>

\* lines 410-418
ParItemLine ==
    /\ ParScanning
    /\ ParLine # <<>>
    /\ ~(IsTechnicalHeader(ParLine) \/ IsStepsHeader(ParLine))
    /\ ~IsRegulationLine(ParLine)
    /\ par' = ParAfter(ScanLine(ParLocals, ParLine, par.j))
    /\ UNCHANGED <<seg, dvars>>

\* lines 420-424
ParReturn ==
    /\ par.pc = "scan"
    /\ par.j > Len(par.analysis)
    /\ par' = [par EXCEPT !.pc = "done", !.result = FlushOpenRegulation(ParLocals)]
    /\ UNCHANGED <<seg, dvars>>

(***************************************************************************)
(* Request Dispatcher: analyze_compliance, process_chunk, make_api_request *)
(***************************************************************************)
\* An exception is its type and, for an HTTPException, its status_code.
Exc(type, status_code) == [type |-> type, status_code |-> status_code]

NoExc == Exc("none", 0)

\* lines 102-108
should_retry_error(exception) ==
    IF exception.type = "HTTPException"
    THEN exception.status_code \in {429, 503, 502, 500}
    ELSE exception.type = "HTTPError"

\* What one client.request of make_api_request can meet: a response with a status
\* code (challenge: its body is a challenge page; auth: its body is a JSON error whose
\* message holds "Authentication Error"), a transport timeout or a network error.
Upstream(kind, status_code, body) == [kind |-> kind, status_code |-> status_code, body |-> body]

UpstreamOK == Upstream("response", 200, "json")

UpstreamFailures ==
    { Upstream("response", 429, "json"),
      Upstream("response", 500, "json"),
      Upstream("response", 404, "json"),
      Upstream("response", 401, "auth"),
      Upstream("response", 403, "challenge"),
      Upstream("timeout", 0, "none"),
      Upstream("network", 0, "none") }

\* lines 206-221: the status code of the HTTPException for an HTTPStatusError
handle_http_error_status(outcome) ==
    IF outcome.body = "auth" THEN 401 ELSE outcome.status_code

\* lines 170-204: the exception one attempt of make_api_request raises, NoExc when it
\* returns the response.  REQUEST_TIMEOUT (line 177) is evaluated before the request
\* is sent.
AttemptRaises(outcome, request_timeout_bound) ==
    IF ~request_timeout_bound THEN Exc("NameError", 0)
    ELSE IF outcome.kind = "timeout" THEN Exc("HTTPException", 504)
    ELSE IF outcome.kind = "network" THEN Exc("HTTPException", 503)
    ELSE IF outcome.status_code \in {403, 503} /\ outcome.body = "challenge"
    THEN Exc("HTTPException", 503)
    ELSE IF outcome.status_code >= 400
    THEN Exc("HTTPException", handle_http_error_status(outcome))
    ELSE NoExc

\* line 167: retry=retry_if_exception_type((httpx.HTTPError, HTTPException))
RetryPredicate(exception) == exception.type \in {"HTTPError", "HTTPException"}

\* line 165: stop=stop_after_attempt(MAX_RETRIES)
StopAfterAttempt(attempt) == attempt >= MAX_RETRIES

\* What the completion API answers for part chunk_index + 1 of a request: one line
\* that names the part.
PartNames == <<"part1", "part2", "part3", "part4", "part5", "part6", "part7", "part8">>

UpstreamAnalysis(chunk_index) == << <<"ISO", ":", PartNames[chunk_index + 1]>> >>

\* lines 262-266
ProcessChunkResult(chunk_index, analysis) ==
    [chunk_index |-> chunk_index, analysis |-> analysis]

\* lines 296-300, with the chunk size of the model
RequestChunks(technicalProcess) ==
    split_into_chunks(CollapseSpace(Strip(Replace(technicalProcess, "\n", " "))), ChunkSize)

\* the technicalProcess of k sentences, each of them one chunk
RECURSIVE ProcessOf(_)
ProcessOf(k) ==
    IF k = 1 THEN <<"a", "a", "b">>
    ELSE ProcessOf(k - 1) \o <<".", " ", "a", "a", "b">>

\* line 279, scaled: the longest technicalProcess the handler accepts
MaxProcessLength == Len(ProcessOf(MaxChunks))

RequestTexts ==
    {<<>>, <<" ", "\n">>} \cup {ProcessOf(k) : k \in 1..(MaxChunks + 1)}

\* attempt: the number of the attempt under way (0 before the first and after the last)
Task(status, attempt, exc, result) ==
    [status |-> status, attempt |-> attempt, exc |-> exc, result |-> result]

InFlight == {i \in DOMAIN tasks : tasks[i].status \in {"inflight", "backoff"}}

CanAcquire_unbounded == TRUE

\* line 308: async with sem
CanAcquire == sem > 0

GatherReady_return_exceptions ==
    \A i \in DOMAIN tasks : tasks[i].status \in {"ok", "failed"}

\* line 318: asyncio.gather returns once every awaitable has returned
GatherReady == \A i \in DOMAIN tasks : tasks[i].status = "ok"

\* line 318: the results, in the order of the awaitables
RECURSIVE GatherFrom(_)
GatherFrom(i) ==
    IF i > Len(tasks) THEN <<>> ELSE tasks[i].result \o GatherFrom(i + 1)

GatherResults == GatherFrom(1)

RECURSIVE InsertDescending(_, _)
InsertDescending(sorted, x) ==
    IF sorted = <<>> THEN <<x>>
    ELSE IF x.chunk_index > Head(sorted).chunk_index THEN <<x>> \o sorted
    ELSE <<Head(sorted)>> \o InsertDescending(Tail(sorted), x)

RECURSIVE SortDescending(_)
SortDescending(results) ==
    IF results = <<>> THEN <<>>
    ELSE InsertDescending(SortDescending(SubSeq(results, 1, Len(results) - 1)),
                          results[Len(results)])

RECURSIVE InsertByChunkIndex(_, _)
InsertByChunkIndex(sorted, x) ==
    IF sorted = <<>> THEN <<x>>
    ELSE IF x.chunk_index < Head(sorted).chunk_index THEN <<x>> \o sorted
    ELSE <<Head(sorted)>> \o InsertByChunkIndex(Tail(sorted), x)

\* line 319: chunk_results.sort(key=lambda x: x["chunk_index"]), a stable sort
RECURSIVE SortByChunkIndex(_)
SortByChunkIndex(results) ==
    IF results = <<>> THEN <<>>
    ELSE InsertByChunkIndex(SortByChunkIndex(SubSeq(results, 1, Len(results) - 1)),
                            results[Len(results)])

\* line 320
Analyses(chunk_results) == [k \in 1..Len(chunk_results) |-> chunk_results[k].analysis]

\* line 338: "\n\n".join(all_analyses), a blank line between two analyses
RECURSIVE JoinAnalyses(_)
JoinAnalyses(analyses) ==
    IF analyses = <<>> THEN <<>>
    ELSE IF Len(analyses) = 1 THEN Head(analyses)
    ELSE Head(analyses) \o << <<>> >> \o JoinAnalyses(Tail(analyses))

\* the report without the bookkeeping fields of the parser model
ReportEntry(e) == [name |-> e.name, relevance |-> e.relevance,
                   requirements |-> e.requirements, priority |-> e.priority]

Report(result) ==
    [result EXCEPT !.regulations = [k \in 1..Len(result.regulations) |->
                                        ReportEntry(result.regulations[k])]]

\* lines 338-343
Summary(analyses) == Report(parse_compliance_analysis(JoinAnalyses(analyses)))

\* lines 345-356: the status the handler answers for an exception raised in its body
HandlerStatus(exception) ==
    IF exception.type = "HTTPException" THEN exception.status_code
    ELSE IF exception.type = "TimeoutError" THEN 504
    ELSE 500

NoResponse == [status |-> 0, summary |-> <<>>]

ErrorResponse(status) == [status |-> status, summary |-> <<>>]

SummaryResponse(analyses) == [status |-> 200, summary |-> <<Summary(analyses)>>]

NoObservation == [elapsed |-> FALSE, out_of_order |-> FALSE, attempt_failed |-> FALSE]

\* The request arrives.  configured: OPENAI_API_KEY and OPENAI_MODEL_NAME are set
\* (lines 21-22).  request_timeout_bound: the global REQUEST_TIMEOUT that line 177 reads
\* is bound when the request is made; main.py itself binds it nowhere.
Init ==
    /\ env \in [configured : BOOLEAN, request_timeout_bound : BOOLEAN]
    /\ request \in [technicalProcess : RequestTexts]
    /\ pc = "start"
    /\ process_chunks = <<>>
    /\ tasks = <<>>
    /\ sem = 0
    /\ all_analyses = <<>>
    /\ response = NoResponse
    /\ obs = NoObservation
    /\ seg = SegIdle
    /\ par = ParIdle
    /\ upload_history = [c \in {} |-> 0]
    /\ clock = 0
    /\ uploads = <<>>
    /\ answered = [status |-> 0]
    /\ throttle_log = [passed_at |-> <<>>, earlier |-> <<>>]
    /\ search = [pc |-> "idle"]

Respond(r) ==
    /\ pc' = "responded"
    /\ response' = r

\* lines 273-277
RejectUnconfigured ==
    /\ pc = "start"
    /\ ~env.configured
    /\ Respond(ErrorResponse(500))
    /\ UNCHANGED <<seg, par, evars, env, request, process_chunks, tasks, sem, all_analyses, obs>>

\* lines 279-283
RejectTooLong ==
    /\ pc = "start"
    /\ env.configured
    /\ Len(request.technicalProcess) > MaxProcessLength
    /\ Respond(ErrorResponse(400))
    /\ UNCHANGED <<seg, par, evars, env, request, process_chunks, tasks, sem, all_analyses, obs>>

Accepted ==
    /\ pc = "start"
    /\ env.configured
    /\ Len(request.technicalProcess) <= MaxProcessLength

\* lines 296-314: more than one chunk, a task for each behind the semaphore
FanOut ==
    /\ Accepted
    /\ LET chunks == RequestChunks(request.technicalProcess)
       IN  /\ Len(chunks) > 1
           /\ process_chunks' = chunks
           /\ tasks' = [i \in 1..Len(chunks) |-> Task("waiting", 0, NoExc, <<>>)]
    /\ sem' = SemaphoreValue
    /\ pc' = "gather"
    /\ UNCHANGED <<seg, par, evars, env, request, all_analyses, response, obs>>

\* lines 326-328: one chunk, process_chunk called directly
SingleChunk ==
    /\ Accepted
    /\ LET chunks == RequestChunks(request.technicalProcess)
       IN  /\ Len(chunks) = 1
           /\ process_chunks' = chunks
           /\ tasks' = <<Task("inflight", 1, NoExc, <<>>)>>
    /\ pc' = "single"
    /\ UNCHANGED <<seg, par, evars, env, request, sem, all_analyses, response, obs>>

\* lines 326-328 and 353-356: no chunk, process_chunks[0] raises IndexError
NoChunk ==
    /\ Accepted
    /\ RequestChunks(request.technicalProcess) = <<>>
    /\ Respond(ErrorResponse(HandlerStatus(Exc("IndexError", 0))))
    /\ UNCHANGED <<seg, par, evars, env, request, process_chunks, tasks, sem, all_analyses, obs>>

\* the semaphore is released when a task of the fan-out leaves process_chunk
Released == IF Len(tasks) > 1 THEN sem + 1 ELSE sem

\* lines 307-309: the task enters "async with sem" and makes its first attempt.  The
\* tasks reach the semaphore in the order gather was given them, and
\* asyncio.Semaphore wakes its waiters first come, first served.
Acquire(i) ==
    /\ tasks[i].status = "waiting"
    /\ \A j \in 1..(i - 1) : tasks[j].status # "waiting"
    /\ CanAcquire
    /\ sem' = sem - 1
    /\ tasks' = [tasks EXCEPT ![i] = Task("inflight", 1, NoExc, <<>>)]
    /\ UNCHANGED <<seg, par, evars, env, request, pc, process_chunks, all_analyses, response, obs>>

\* lines 172-188 and 262-266: the attempt returns a response, process_chunk returns
AttemptReturns(i) ==
    /\ tasks[i].status = "inflight"
    /\ AttemptRaises(UpstreamOK, env.request_timeout_bound) = NoExc
    /\ tasks' = [tasks EXCEPT ![i] =
                    Task("ok", 0, NoExc,
                         <<ProcessChunkResult(i - 1, UpstreamAnalysis(i - 1))>>)]
    /\ sem' = Released
    /\ obs' = [obs EXCEPT !.out_of_order =
                  @ \/ \E j \in 1..(i - 1) : tasks[j].status # "ok"]
    /\ UNCHANGED <<seg, par, evars, env, request, pc, process_chunks, all_analyses, response>>

\* lines 164-204: the attempt raises; the retry decorator schedules another attempt
AttemptRetried(i) ==
    /\ tasks[i].status = "inflight"
    /\ \E outcome \in UpstreamFailures :
           LET exc == AttemptRaises(outcome, env.request_timeout_bound)
           IN  /\ RetryPredicate(exc)
               /\ ~StopAfterAttempt(tasks[i].attempt)
               /\ tasks' = [tasks EXCEPT ![i] = Task("backoff", @.attempt, exc, <<>>)]
    /\ obs' = [obs EXCEPT !.attempt_failed = TRUE]
    /\ UNCHANGED <<seg, par, evars, env, request, pc, process_chunks, sem, all_analyses, response>>

\* line 166: the backoff wait is over, the next attempt starts
NextAttempt(i) ==
    /\ tasks[i].status = "backoff"
    /\ tasks' = [tasks EXCEPT ![i] = Task("inflight", @.attempt + 1, NoExc, <<>>)]
    /\ UNCHANGED <<seg, par, evars, env, request, pc, process_chunks, sem, all_analyses, response, obs>>

\* lines 164-169 and 267-269: the attempt raises and make_api_request gives up: the
\* exception is not one the decorator retries, or it was the last attempt and the
\* decorator raises RetryError; process_chunk re-raises
AttemptGivesUp(i) ==
    /\ tasks[i].status = "inflight"
    /\ \E outcome \in UpstreamFailures :
           LET exc == AttemptRaises(outcome, env.request_timeout_bound)
           IN  \/ /\ ~RetryPredicate(exc)
                  /\ tasks' = [tasks EXCEPT ![i] = Task("failed", 0, exc, <<>>)]
               \/ /\ RetryPredicate(exc)
                  /\ StopAfterAttempt(tasks[i].attempt)
                  /\ tasks' = [tasks EXCEPT ![i] =
                                  Task("failed", 0, Exc("RetryError", 0), <<>>)]
    /\ sem' = Released
    /\ obs' = [obs EXCEPT !.attempt_failed = TRUE]
    /\ UNCHANGED <<seg, par, evars, env, request, pc, process_chunks, all_analyses, response>>

\* lines 318-320 and 338-343: every task returned; sort, merge, parse, answer
GatherReturns ==
    /\ pc = "gather"
    /\ GatherReady
    /\ LET chunk_results == SortByChunkIndex(GatherResults)
       IN  /\ all_analyses' = Analyses(chunk_results)
           /\ Respond(SummaryResponse(Analyses(chunk_results)))
    /\ UNCHANGED <<seg, par, evars, env, request, process_chunks, tasks, sem, obs>>

\* lines 318 and 345-356: a task raised, gather raises its exception
GatherRaises ==
    /\ pc = "gather"
    /\ \E i \in DOMAIN tasks :
           /\ tasks[i].status = "failed"
           /\ Respond(ErrorResponse(HandlerStatus(tasks[i].exc)))
    /\ UNCHANGED <<seg, par, evars, env, request, process_chunks, tasks, sem, all_analyses, obs>>

\* lines 328-329 and 338-343
SingleReturns ==
    /\ pc = "single"
    /\ tasks[1].status = "ok"
    /\ all_analyses' = <<tasks[1].result[1].analysis>>
    /\ Respond(SummaryResponse(<<tasks[1].result[1].analysis>>))
    /\ UNCHANGED <<seg, par, evars, env, request, process_chunks, tasks, sem, obs>>

\* lines 328 and 345-356
SingleRaises ==
    /\ pc = "single"
    /\ tasks[1].status = "failed"
    /\ Respond(ErrorResponse(HandlerStatus(tasks[1].exc)))
    /\ UNCHANGED <<seg, par, evars, env, request, process_chunks, tasks, sem, all_analyses, obs>>

\* the call the handler awaits has neither returned nor raised
AwaitPending ==
    /\ \A i \in DOMAIN tasks : tasks[i].status # "failed"
    /\ \E i \in DOMAIN tasks : tasks[i].status # "ok"

\* The time request.timeout has passed since the request arrived, the handler still
\* awaiting the requests of its chunks (requests are sent only where REQUEST_TIMEOUT
\* is bound).  Nothing in the handler waits for this: line 318 awaits asyncio.gather
\* itself, not asyncio.wait_for.
TimeoutElapses ==
    /\ pc \in {"gather", "single"}
    /\ env.request_timeout_bound
    /\ AwaitPending
    /\ ~obs.elapsed
    /\ obs' = [obs EXCEPT !.elapsed = TRUE]
    /\ UNCHANGED <<seg, par, evars, env, request, pc, process_chunks, tasks, sem, all_analyses, response>>

(***************************************************************************)
(* Upload endpoint: analyze_traffic, analyze_traffic_data                  *)
(***************************************************************************)
\* bounds of the upload model
\* most analyze_traffic calls suspended at await file.read() at the same time
MaxPending == 2
\* the seconds the clock advances by between two observations of it
TickSeconds == 30
\* the last clock value of a run, in seconds
MaxClock == 120

\* line 628: timedelta(minutes=1), in seconds
OneMinute == 60
\* line 643: len(data) != 10
RecordLength == 10

\* The username form field: None (<<>>), the empty string or a name.
Usernames == {<<>>, <<"">>, <<"alice">>, <<"anonymous">>}

\* line 623: client_id = username or "anonymous"
ClientId(username) ==
    IF username = <<>> \/ username = <<"">> THEN "anonymous" ELSE username[1]

\* The content of an uploaded file: bytes json.loads rejects, or the JSON value they
\* hold.  The element of a JSON list is a number, a string float() accepts ("1.5"),
\* a string float() rejects ("abc") or null.
Numbers(n) == [k \in 1..n |-> "number"]

Content(kind, items) == [kind |-> kind, items |-> items]

Contents ==
    { Content("not_json", <<>>),
      Content("dict", <<>>),
      Content("list", Numbers(RecordLength)),
      Content("list", Numbers(RecordLength - 1)),
      Content("list", Numbers(RecordLength + 1)),
      Content("list", [Numbers(RecordLength) EXCEPT ![RecordLength] = "word_str"]),
      Content("list", [Numbers(RecordLength) EXCEPT ![1] = "null", ![2] = "word_str"]),
      Content("list", [Numbers(RecordLength) EXCEPT ![2] = "numeric_str"]) }

\* line 647: the exception float(x) raises, "none" when it returns
FloatRaises(x) ==
    CASE x = "word_str" -> "ValueError"
      [] x = "null"     -> "TypeError"
      [] OTHER          -> "none"

\* line 647: the list comprehension raises what the first failing float(x) raises
RECURSIVE ConvertRaises(_)
ConvertRaises(data) ==
    IF data = <<>> THEN "none"
    ELSE IF FloatRaises(Head(data)) # "none" THEN FloatRaises(Head(data))
    ELSE ConvertRaises(Tail(data))

\* lines 642-647: the exception the body of the inner try raises, "none" when
\* traffic_data is built
ReadRaises(content) ==
    IF content.kind = "not_json" THEN "JSONDecodeError"
    ELSE IF content.kind # "list" \/ Len(content.items) # RecordLength THEN "ValueError"
    ELSE ConvertRaises(content.items)

\* lines 649-653: except (json.JSONDecodeError, ValueError) raises HTTPException(400)
\* in place of what it catches; any other exception passes through
InnerHandler(raised) ==
    IF raised \in {"JSONDecodeError", "ValueError"} THEN Exc("HTTPException", 400)
    ELSE Exc(raised, 0)

\* lines 660-664: except Exception raises HTTPException(500) in place of whatever the
\* body of the outer try raised; HTTPException is a subclass of Exception
OuterHandler(exception) == Exc("HTTPException", 500)

\* lines 636-664: the exception analyze_traffic raises for a content that does not
\* give a traffic_data
RejectContent(content) == OuterHandler(InnerHandler(ReadRaises(content)))

\* What rf_model.predict answers: a class id, or it raises (<<>>).
Predictions == {<<0>>, <<3>>, <<99>>, <<>>}

\* lines 570-578
attack_types ==
    [p \in 1..7 |->
        CASE p = 1 -> "DoS Attack"
          [] p = 2 -> "Probe Attack"
          [] p = 3 -> "Remote Access Attack"
          [] p = 4 -> "Privilege Escalation Attack"
          [] p = 5 -> "Data Exfiltration Attack"
          [] p = 6 -> "Brute Force Attack"
          [] p = 7 -> "Man-in-the-Middle Attack"]

\* lines 562-587: the SentinelResponse of a class id
SentinelResponse(prediction) ==
    IF prediction = 0 THEN [status |-> "clean", type |-> <<>>]
    ELSE [status |-> "malicious",
          type |-> <<IF prediction \in DOMAIN attack_types
                     THEN attack_types[prediction]
                     ELSE "Unknown Attack">>]

\* line 616: 5 * 1024 * 1024
SizeLimit == 5 * 1024 * 1024

\* file.size of an upload: at the limit or above it
FileSizes == {SizeLimit, SizeLimit + 1}

\* What POST /api/sentinel/analyze answers: the status and the client id; for an
\* answer of lines 616-632 when the upload arrived (at) and its file.size; for an
\* answer of lines 636-664 the content read, whether rf_model.predict was called and
\* the verdict.
Answer(status, client_id, at, size, content, predicted, verdict) ==
    [status |-> status, client_id |-> client_id, at |-> at, size |-> size,
     content |-> content, predicted |-> predicted, verdict |-> verdict]

\* the throttle with <= in place of < at line 628
Throttled_inclusive(client_id, current_time) ==
    /\ client_id \in DOMAIN upload_history
    /\ current_time - upload_history[client_id] <= OneMinute

\* lines 626-628: the throttle refuses the upload
Throttled(client_id, current_time) ==
    /\ client_id \in DOMAIN upload_history
    /\ current_time - upload_history[client_id] < OneMinute

\* the timestamp stored for a client id, <<>> when there is none
Stored(history, client_id) ==
    IF client_id \in DOMAIN history THEN <<history[client_id]>> ELSE <<>>

\* the times at which uploads of client_id passed the throttle, in their order
PassedAt(client_id) ==
    IF client_id \in DOMAIN throttle_log.passed_at
    THEN throttle_log.passed_at[client_id] ELSE <<>>

\* the observer notes that an upload of client_id passes the throttle now
Logged(client_id) ==
    [throttle_log EXCEPT !.passed_at =
        [c \in DOMAIN throttle_log.passed_at \cup {client_id} |->
            IF c = client_id THEN Append(PassedAt(c), clock)
            ELSE throttle_log.passed_at[c]]]

\* the observer notes when the uploads of client_id had passed the throttle before
\* the upload that is answered now
Refused(client_id) == [throttle_log EXCEPT !.earlier = PassedAt(client_id)]

UploadInit ==
    /\ upload_history = [c \in {} |-> 0]
    /\ clock = 0
    /\ uploads = <<>>
    /\ answered = [status |-> 0]
    /\ throttle_log = [passed_at |-> [c \in {} |-> <<>>], earlier |-> <<>>]
    /\ search = [pc |-> "idle"]
    /\ seg = SegIdle
    /\ par = ParIdle
    /\ env = [configured |-> FALSE, request_timeout_bound |-> FALSE]
    /\ request = [technicalProcess |-> <<>>]
    /\ pc = "idle"
    /\ process_chunks = <<>>
    /\ tasks = <<>>
    /\ sem = 0
    /\ all_analyses = <<>>
    /\ response = [status |-> 0, summary |-> <<>>]
    /\ obs = [elapsed |-> FALSE, out_of_order |-> FALSE, attempt_failed |-> FALSE]

uvars == <<seg, par, env, request, pc, process_chunks, tasks, sem, all_analyses, response,
           obs, search>>

\* time passes
Tick ==
    /\ clock + TickSeconds <= MaxClock
    /\ clock' = clock + TickSeconds
    /\ UNCHANGED <<upload_history, uploads, answered, throttle_log, uvars>>

\* lines 616-620: the file is too large
UploadTooLarge(username, size) ==
    /\ size > SizeLimit
    /\ answered' = Answer(400, ClientId(username), <<clock>>, <<size>>, <<>>, FALSE, <<>>)
    /\ throttle_log' = Refused(ClientId(username))
    /\ UNCHANGED <<upload_history, clock, uploads, uvars>>

\* lines 623-632: the throttle refuses the upload
UploadThrottled(username, size) ==
    LET client_id == ClientId(username)
        current_time == clock
    IN  /\ ~(size > SizeLimit)
        /\ Throttled(client_id, current_time)
        /\ answered' = Answer(429, client_id, <<current_time>>, <<size>>, <<>>, FALSE, <<>>)
        /\ throttle_log' = Refused(client_id)
        /\ UNCHANGED <<upload_history, clock, uploads, uvars>>

\* lines 623-638: the upload passes the throttle, its timestamp is stored and the
\* call is suspended at await file.read()
UploadPasses(username, size) ==
    LET client_id == ClientId(username)
        current_time == clock
    IN  /\ ~(size > SizeLimit)
        /\ ~Throttled(client_id, current_time)
        /\ Len(uploads) < MaxPending
        /\ upload_history' = [c \in DOMAIN upload_history \cup {client_id} |->
                                 IF c = client_id THEN current_time ELSE upload_history[c]]
        /\ uploads' = Append(uploads, [client_id |-> client_id])
        /\ throttle_log' = Logged(client_id)
        /\ UNCHANGED <<clock, answered, uvars>>

\* the suspended calls without call i
Resumed(i) == SubSeq(uploads, 1, i - 1) \o SubSeq(uploads, i + 1, Len(uploads))

\* lines 638-653 and 660-664: file.read() of call i returns a content that gives no
\* traffic_data
UploadRejected(i, content) ==
    /\ ReadRaises(content) # "none"
    /\ answered' = Answer(RejectContent(content).status_code, uploads[i].client_id,
                          <<>>, <<>>, <<content>>, FALSE, <<>>)
    /\ uploads' = Resumed(i)
    /\ throttle_log' = [throttle_log EXCEPT !.earlier = <<>>]
    /\ UNCHANGED <<upload_history, clock, uvars>>

\* lines 638-658 and 548-587: file.read() of call i returns a traffic record and
\* rf_model.predict a class id
UploadClassified(i, content, prediction) ==
    /\ ReadRaises(content) = "none"
    /\ prediction # <<>>
    /\ answered' = Answer(200, uploads[i].client_id, <<>>, <<>>, <<content>>, TRUE,
                          <<SentinelResponse(prediction[1])>>)
    /\ uploads' = Resumed(i)
    /\ throttle_log' = [throttle_log EXCEPT !.earlier = <<>>]
    /\ UNCHANGED <<upload_history, clock, uvars>>

\* lines 588-593 and 660-664: file.read() of call i returns a traffic record and
\* rf_model.predict raises
UploadClassifierFails(i, content, prediction) ==
    /\ ReadRaises(content) = "none"
    /\ prediction = <<>>
    /\ answered' = Answer(OuterHandler(Exc("HTTPException", 500)).status_code,
                          uploads[i].client_id, <<>>, <<>>, <<content>>, TRUE, <<>>)
    /\ uploads' = Resumed(i)
    /\ throttle_log' = [throttle_log EXCEPT !.earlier = <<>>]
    /\ UNCHANGED <<upload_history, clock, uvars>>

(***************************************************************************)
(* Search endpoint: search_policies                                        *)
(***************************************************************************)
\* bounds of the search model
\* most domains of a PolicySearchRequest
MaxDomains == 2
\* most results the search API answers with
MaxResults == 2

\* A domain of the request: whether it starts with "." and what follows.
Domain(leading_dot, rest) == [leading_dot |-> leading_dot, rest |-> rest]

Domains == {Domain(TRUE, "gov"), Domain(FALSE, "europa.eu")}

\* the sequences over S of length 1..n
RECURSIVE SeqsUpTo(_, _)
SeqsUpTo(S, n) ==
    IF n = 0 THEN {<<>>}
    ELSE LET shorter == SeqsUpTo(S, n - 1)
         IN  shorter \cup {Append(s, x) : s \in {t \in shorter : Len(t) = n - 1}, x \in S}

\* lines 74-85: a PolicySearchRequest has at least one domain
SearchRequests ==
    [query : {"gdpr"}, domains : SeqsUpTo(Domains, MaxDomains) \ {<<>>}]

\* lines 448-451: f"site:{domain[1:]}" for ".gov", f"site:.{domain}" for "gov"
DomainQuery(domain) ==
    IF domain.leading_dot
    THEN [site |-> Domain(FALSE, domain.rest)]
    ELSE [site |-> Domain(TRUE, domain.rest)]

\* lines 446-454: the query sent, the domain filters in the order of the domains
SearchQuery(search_request) ==
    [query |-> search_request.query,
     domain_filter |-> [k \in DOMAIN search_request.domains |->
                           DomainQuery(search_request.domains[k])]]

\* Which of the markers of categorize_domain a netloc contains.
NetlocHolds ==
    [ec_europa_eu   |-> {"europa.eu", "ec.europa.eu"},
     usa_gov        |-> {"gov"},
     who_int        |-> {"int", "who.int"},
     interpol_org   |-> {"int"},
     example_org    |-> {},
     example_com    |-> {}]

\* the netlocs that end with ".org"
NetlocEndsWithOrg == {"interpol_org", "example_org"}

\* lines 524-531: the netloc of a url; the urls of the model are a netloc and a path
extract_domain(url) == url.netloc

\* lines 533-546; search_domains is not read
categorize_domain(domain, search_domains) ==
    IF NetlocHolds[domain] \cap {"europa.eu", "ec.europa.eu", "edpb.europa.eu"} # {}
    THEN "EU Domain"
    ELSE IF NetlocHolds[domain] \cap {"gov", "government"} # {}
    THEN "Government Domain"
    ELSE IF NetlocHolds[domain] \cap {"int", "un.org", "who.int"} # {}
    THEN "International Organization"
    ELSE IF domain \in NetlocEndsWithOrg
    THEN "Non-Profit Organization"
    ELSE "Other"

\* A result of the search API: url, title and score, each of them optional.
Result(url, title, score) == [url |-> url, title |-> title, score |-> score]

Url(netloc, path) == [netloc |-> netloc, path |-> path]

UpstreamResults ==
    { Result(<<Url("usa_gov", "a")>>, <<"t1">>, <<5>>),
      Result(<<Url("usa_gov", "a")>>, <<"t2">>, <<9>>),
      Result(<<Url("who_int", "a")>>, <<"t3">>, <<9>>),
      Result(<<Url("interpol_org", "a")>>, <<"t4">>, <<>>),
      Result(<<Url("example_org", "a")>>, <<>>, <<7>>),
      Result(<<>>, <<"t6">>, <<8>>),
      Result(<<Url("ec_europa_eu", "a")>>, <<"t7">>, <<7>>) }

\* lines 495-502
PolicyResult(result, search_domains) ==
    [title |-> result.title[1],
     url |-> result.url[1],
     relevance_score |-> IF result.score = <<>> THEN 0 ELSE result.score[1],
     domain |-> extract_domain(result.url[1]),
     category |-> categorize_domain(extract_domain(result.url[1]), search_domains)]

\* lines 488-502: the results with a url not seen before and a title
RECURSIVE Collect(_, _, _)
Collect(results, seen_urls, search_domains) ==
    IF results = <<>> THEN <<>>
    ELSE LET result == Head(results)
         IN  IF result.url # <<>> /\ result.url[1] \notin seen_urls /\ result.title # <<>>
             THEN <<PolicyResult(result, search_domains)>>
                  \o Collect(Tail(results), seen_urls \cup {result.url[1]}, search_domains)
             ELSE Collect(Tail(results), seen_urls, search_domains)

\* line 505: results.sort(key=relevance_score, reverse=True), a stable sort
RECURSIVE InsertByRelevance(_, _)
InsertByRelevance(x, sorted) ==
    IF sorted = <<>> THEN <<x>>
    ELSE IF Head(sorted).relevance_score >= x.relevance_score
    THEN <<Head(sorted)>> \o InsertByRelevance(x, Tail(sorted))
    ELSE <<x>> \o sorted

RECURSIVE SortByRelevance(_)
SortByRelevance(results) ==
    IF results = <<>> THEN <<>>
    ELSE InsertByRelevance(results[Len(results)],
                           SortByRelevance(SubSeq(results, 1, Len(results) - 1)))

\* What client.post of line 457 can meet: a response with a status code, whose body
\* is JSON with a results list or is not JSON, a transport timeout
\* (httpx.TimeoutException) or another transport error.
SearchUpstream(kind, status_code, json, results) ==
    [kind |-> kind, status_code |-> status_code, json |-> json, results |-> results]

SearchUpstreamErrors == {400, 401, 404, 429, 500, 503}

\* lines 476-480 and 482: the exception the body of the try raises for what the
\* search API answered, NoExc when the results are read
SearchRaises(upstream) ==
    IF upstream.kind = "timeout" THEN Exc("TimeoutException", 0)
    ELSE IF upstream.kind = "network" THEN Exc("ConnectError", 0)
    ELSE IF upstream.status_code # 200 THEN Exc("HTTPException", upstream.status_code)
    ELSE IF ~upstream.json THEN Exc("JSONDecodeError", 0)
    ELSE NoExc

\* lines 513-522: except httpx.TimeoutException raises HTTPException(504), except
\* Exception raises HTTPException(500) in place of any other exception;
\* HTTPException is a subclass of Exception
SearchHandler(exception) ==
    IF exception.type = "TimeoutException" THEN Exc("HTTPException", 504)
    ELSE Exc("HTTPException", 500)

\* What POST /api/search-policies answers.
SearchError(status) == [status |-> status, policies |-> <<>>]

SearchAnswer(policies) == [status |-> 200, policies |-> policies]

SearchInit ==
    /\ \E configured \in BOOLEAN, search_request \in SearchRequests :
           search = [pc |-> "start", configured |-> configured, request |-> search_request,
                     search_query |-> <<>>, upstream |-> <<>>,
                     response |-> [status |-> 0, policies |-> <<>>]]
    /\ upload_history = [c \in {} |-> 0]
    /\ clock = 0
    /\ uploads = <<>>
    /\ answered = [status |-> 0]
    /\ throttle_log = [passed_at |-> <<>>, earlier |-> <<>>]
    /\ seg = SegIdle
    /\ par = ParIdle
    /\ env = [configured |-> FALSE, request_timeout_bound |-> FALSE]
    /\ request = [technicalProcess |-> <<>>]
    /\ pc = "idle"
    /\ process_chunks = <<>>
    /\ tasks = <<>>
    /\ sem = 0
    /\ all_analyses = <<>>
    /\ response = [status |-> 0, summary |-> <<>>]
    /\ obs = [elapsed |-> FALSE, out_of_order |-> FALSE, attempt_failed |-> FALSE]

svars == <<seg, par, env, request, pc, process_chunks, tasks, sem, all_analyses, response,
           obs, upload_history, clock, uploads, answered, throttle_log>>

\* lines 438-442: TAVILY_API_KEY is not set
SearchUnconfigured ==
    /\ search.pc = "start"
    /\ ~search.configured
    /\ search' = [search EXCEPT !.pc = "responded", !.response = SearchError(500)]
    /\ UNCHANGED svars

\* lines 444-474: the query is built and posted
SearchPosts ==
    /\ search.pc = "start"
    /\ search.configured
    /\ search' = [search EXCEPT !.pc = "posted",
                                !.search_query = <<SearchQuery(search.request)>>]
    /\ UNCHANGED svars

\* what the handler answers for an upstream outcome that makes the try body raise
SearchFailed(upstream) ==
    /\ search.pc = "posted"
    /\ SearchRaises(upstream) # NoExc
    /\ search' = [search EXCEPT
                      !.pc = "responded",
                      !.upstream = <<upstream>>,
                      !.response = SearchError(SearchHandler(SearchRaises(upstream)).status_code)]
    /\ UNCHANGED svars

\* lines 476-480 and 518-522: the search API answers with a status other than 200
SearchUpstreamError(status_code, json) ==
    SearchFailed(SearchUpstream("response", status_code, json, <<>>))

\* lines 513-517: the post times out
SearchTimesOut == SearchFailed(SearchUpstream("timeout", 0, FALSE, <<>>))

\* lines 518-522: the post fails otherwise, or the body of the 200 response is not JSON
SearchUnexpected(kind) ==
    SearchFailed(SearchUpstream(kind, IF kind = "response" THEN 200 ELSE 0, FALSE, <<>>))

\* lines 482-511: the search API answers 200 with results
SearchReturns(results) ==
    LET upstream == SearchUpstream("response", 200, TRUE, results)
    IN  /\ search.pc = "posted"
        /\ search' = [search EXCEPT
                          !.pc = "responded",
                          !.upstream = <<upstream>>,
                          !.response = SearchAnswer(SortByRelevance(Collect(results, {}, search.request.domains)))]
        /\ UNCHANGED svars

(***************************************************************************)
(* Specifications                                                          *)
(***************************************************************************)
vars == <<seg, par, env, request, pc, process_chunks, tasks, sem, all_analyses, response, obs,
         upload_history, clock, uploads, answered, throttle_log, search>>

SegNext == SegSplit \/ SegLongSentence \/ SegPackSentence \/ SegReturn

SpecSeg == SegInit /\ [][SegNext]_vars

ParNext == ParSkipEmpty \/ ParSectionHeader \/ ParRegulationLine \/ ParItemLine \/ ParReturn

SpecParse == ParInit /\ [][ParNext]_vars

Next ==
    \/ RejectUnconfigured
    \/ RejectTooLong
    \/ FanOut
    \/ SingleChunk
    \/ NoChunk
    \/ \E i \in DOMAIN tasks : Acquire(i)
    \/ \E i \in DOMAIN tasks : AttemptReturns(i)
    \/ \E i \in DOMAIN tasks : AttemptRetried(i)
    \/ \E i \in DOMAIN tasks : NextAttempt(i)
    \/ \E i \in DOMAIN tasks : AttemptGivesUp(i)
    \/ GatherReturns
    \/ GatherRaises
    \/ SingleReturns
    \/ SingleRaises
    \/ TimeoutElapses

Spec == Init /\ [][Next]_vars


UploadNext ==
    \/ Tick
    \/ \E username \in Usernames, size \in FileSizes : UploadTooLarge(username, size)
    \/ \E username \in Usernames, size \in FileSizes : UploadThrottled(username, size)
    \/ \E username \in Usernames, size \in FileSizes : UploadPasses(username, size)
    \/ \E i \in DOMAIN uploads, content \in Contents : UploadRejected(i, content)
    \/ \E i \in DOMAIN uploads, content \in Contents, prediction \in Predictions :
           UploadClassified(i, content, prediction)
    \/ \E i \in DOMAIN uploads, content \in Contents, prediction \in Predictions :
           UploadClassifierFails(i, content, prediction)

SpecUpload == UploadInit /\ [][UploadNext]_vars

SearchNext ==
    \/ SearchUnconfigured
    \/ SearchPosts
    \/ \E status_code \in SearchUpstreamErrors, json \in BOOLEAN :
           SearchUpstreamError(status_code, json)
    \/ SearchTimesOut
    \/ \E kind \in {"network", "response"} : SearchUnexpected(kind)
    \/ \E results \in SeqsUpTo(UpstreamResults, MaxResults) : SearchReturns(results)

SpecSearch == SearchInit /\ [][SearchNext]_vars
(***************************************************************************)
(* Dispatcher claims                                                       *)
(***************************************************************************)
\* C1: a multi-chunk request whose chunk requests all succeed yields one result per
\* chunk, and the analyses are merged in ascending chunk_index order, the order of
\* the chunks in the source text, whatever the order the requests completed in.
C1_OrderedMerge ==
    (Len(process_chunks) > 1 /\ response.status = 200) =>
        /\ Len(all_analyses) = Len(process_chunks)
        /\ \A k \in 1..Len(all_analyses) : all_analyses[k] = UpstreamAnalysis(k - 1)
        /\ response.summary = <<Summary([k \in 1..Len(process_chunks) |->
                                             UpstreamAnalysis(k - 1)])>>

\* a multi-chunk request answered with a summary after a chunk completed before a
\* chunk of lower index
C1_Witness ==
    /\ Len(process_chunks) > 1
    /\ response.status = 200
    /\ obs.out_of_order

\* C2: at most 3 chunk requests of a request are in flight at the same time, a chunk
\* being in flight from its first attempt to its last, backoff waits included.
C2_AtMostThreeInFlight == Cardinality(InFlight) <= 3

\* more chunks than permits: three in flight, one of them in a backoff wait, and a
\* fourth waiting for a permit
C2_Witness ==
    /\ Cardinality(InFlight) = 3
    /\ \E i \in DOMAIN tasks : tasks[i].status = "backoff"
    /\ \E i \in DOMAIN tasks : tasks[i].status = "waiting"

\* C3: when a chunk's request has ultimately failed, its MAX_RETRIES attempts used up,
\* the request is answered with an error and no summary; a summary is built from the
\* analyses of all chunks only.
C3_NoPartialSummary ==
    /\ (pc = "responded" /\ \E i \in DOMAIN tasks : tasks[i].status = "failed") =>
           (response.status >= 400 /\ response.summary = <<>>)
    /\ response.summary # <<>> =>
           (response.status = 200 /\ \A i \in DOMAIN tasks : tasks[i].status = "ok")

\* a request answered with an error after one chunk used up its attempts while
\* another chunk had its analysis
C3_Witness ==
    /\ pc = "responded"
    /\ response.status = 500
    /\ \E i \in DOMAIN tasks : tasks[i].exc.type = "RetryError"
    /\ \E i \in DOMAIN tasks : tasks[i].status = "ok"

C6_SummaryForEveryAcceptedText ==
    ( /\ pc = "responded"
      /\ env.configured
      /\ Len(request.technicalProcess) <= MaxProcessLength
      /\ ~obs.attempt_failed ) =>
        /\ response.status = 200
        /\ response.summary =
               <<Summary([k \in 1..Len(RequestChunks(request.technicalProcess)) |->
                              UpstreamAnalysis(k - 1)])>>

(***************************************************************************)
(* Segmenter claims                                                        *)
(***************************************************************************)
\* the words of the source text, sentence after sentence
RECURSIVE WordsOfAll(_)
WordsOfAll(strs) ==
    IF strs = <<>> THEN <<>>
    ELSE SplitWords(Head(strs), <<>>) \o WordsOfAll(Tail(strs))

\* a chunk without the period split_into_chunks appended to it
Unterminated(chunk) == SubSeq(chunk, 1, Len(chunk) - 1)

RECURSIVE WordsOfChunks(_)
WordsOfChunks(cs) ==
    IF cs = <<>> THEN <<>>
    ELSE SplitWords(Unterminated(Head(cs)), <<>>) \o WordsOfChunks(Tail(cs))

\* the chunk is one word longer than max_length, with its terminal period
IsSingleLongWord(chunk, max_length) ==
    /\ Len(SplitWords(Unterminated(chunk), <<>>)) = 1
    /\ Len(Unterminated(chunk)) > max_length

\* C7: every chunk split_into_chunks returns is at most max_length characters long,
\* joining spaces and terminal period counted, unless it is one single word longer
\* than max_length.
C7_ChunkLengthBound ==
    seg.pc = "done" =>
        \A k \in 1..Len(seg.chunks) :
            \/ Len(seg.chunks[k]) <= seg.max_length
            \/ IsSingleLongWord(seg.chunks[k], seg.max_length)

\* C8: the words of the returned chunks, read chunk after chunk, are the words of
\* the source text in the order of the source text.
C8_ChunkOrder ==
    seg.pc = "done" =>
        WordsOfChunks(seg.chunks) = WordsOfAll(SplitSentences(seg.text))

(***************************************************************************)
(* Parser claims                                                           *)
(***************************************************************************)
\* the entries the scan has produced so far: the flushed ones, then the open one
\* (after the final flush the open entry is in the report)
ParEntries ==
    par.result.regulations
        \o (IF par.pc = "scan" THEN par.current_regulation ELSE <<>>)

StartLines(entries) == [k \in 1..Len(entries) |-> entries[k].line]

\* C9: every regulation entry the scan starts is appended to the report exactly once
\* and in the order started: during the scan the report holds the started entries
\* except the open one, which is flushed by the next regulation line, and at the end
\* of the input the report holds all of them.
C9_FlushedOnceInOrder ==
    /\ par.pc = "scan" =>
          /\ StartLines(ParEntries) = par.started
          /\ Len(par.result.regulations) =
                 Len(par.started) - (IF par.current_regulation # <<>> THEN 1 ELSE 0)
    /\ par.pc = "done" => StartLines(par.result.regulations) = par.started

\* two entries were started and flushed, the first by the second regulation line and
\* the second at the end of the input
C9_Witness ==
    /\ par.pc = "done"
    /\ Len(par.started) >= 2
    /\ Len(par.result.regulations) = Len(par.started)

\* line contains "critical compliance gap"
HasCriticalComplianceGap(line) ==
    \E k \in 1..(Len(line) - 2) :
        line[k] = "critical" /\ line[k + 1] = "compliance" /\ line[k + 2] = "gap"

\* C10 as claimed: a line containing "critical compliance gap" sets priority "high" on
\* the entry it belongs to, be it the line that names the regulation or a later line
\* attributed to it.
C10_AnyLineSetsHigh ==
    \A k \in 1..Len(ParEntries) :
        \A j \in {ParEntries[k].line} \cup ParEntries[k].attributed :
            HasCriticalComplianceGap(par.analysis[j]) => ParEntries[k].priority = "high"

\* C10 as amended: the priority of an entry is the priority of the line that names the
\* regulation, so a naming line containing "critical compliance gap" gives "high", and
\* the lines attributed to the entry later leave it unchanged.
C10_NamingLineSetsPriority ==
    \A k \in 1..Len(ParEntries) :
        LET naming == par.analysis[ParEntries[k].line]
        IN  /\ HasCriticalComplianceGap(naming) => ParEntries[k].priority = "high"
            /\ ParEntries[k].priority = determine_priority(naming)

\* an entry named by a "critical compliance gap" line, with a later line attributed
C10_Witness ==
    \E k \in 1..Len(ParEntries) :
        /\ HasCriticalComplianceGap(par.analysis[ParEntries[k].line])
        /\ ParEntries[k].attributed # {}
        /\ ParEntries[k].priority = "high"

(***************************************************************************)
(* Upload claims                                                           *)
(***************************************************************************)
\* an upload in passes had passed the throttle less than a minute before time t
PassedWithinMinute(passes, t) ==
    \E k \in DOMAIN passes : t - passes[k] < OneMinute

\* the uploads of a client id that passed the throttle are a minute apart or more
PassesAMinuteApart ==
    \A c \in DOMAIN throttle_log.passed_at :
        \A k \in 2..Len(PassedAt(c)) :
            ~PassedWithinMinute(SubSeq(PassedAt(c), 1, k - 1), PassedAt(c)[k])

\* the stored timestamp of a client id is the time its last upload passed the
\* throttle: an upload that did not pass has left it as it was
StoredIsLastPass ==
    /\ DOMAIN upload_history = DOMAIN throttle_log.passed_at
    /\ \A c \in DOMAIN upload_history :
           upload_history[c] = PassedAt(c)[Len(PassedAt(c))]

\* C11 as stated: every upload to /api/sentinel/analyze, whatever its size, is
\* answered 429 exactly when an earlier upload of its client id passed the throttle
\* less than 60 seconds before it; two uploads of a client id that pass are 60
\* seconds apart or more; an upload that does not pass leaves the stored timestamp
\* unchanged.
C11_ThrottledExactlyWithinMinute ==
    /\ answered.status # 0 /\ answered.at # <<>> =>
           (answered.status = 429 <=>
                PassedWithinMinute(throttle_log.earlier, answered.at[1]))
    /\ PassesAMinuteApart
    /\ StoredIsLastPass

\* C11, amended: an upload whose file is within the size limit is answered 429
\* exactly when an earlier upload of its client id passed the throttle less than 60
\* seconds before it, and passes the throttle otherwise; two uploads of a client id
\* that pass are 60 seconds apart or more; an upload that does not pass leaves the
\* stored timestamp unchanged.
C11_ThrottledExactlyWithinMinuteOfSizedUpload ==
    /\ ( /\ answered.status # 0
         /\ answered.at # <<>>
         /\ ~(answered.size[1] > SizeLimit) ) =>
           /\ answered.status = 429
           /\ PassedWithinMinute(throttle_log.earlier, answered.at[1])
    /\ PassesAMinuteApart
    /\ StoredIsLastPass

\* an upload of a client answered 429 between two uploads of it that passed, a minute
\* apart, while an upload of another client passed in between
C11_Witness ==
    /\ answered.status = 429
    /\ Len(PassedAt(answered.client_id)) >= 2
    /\ PassedAt(answered.client_id)[2] - PassedAt(answered.client_id)[1] = 2 * TickSeconds
    /\ answered.at[1] < PassedAt(answered.client_id)[2]
    /\ \E c \in DOMAIN throttle_log.passed_at :
           /\ c # answered.client_id
           /\ PassedAt(c)[1] > PassedAt(answered.client_id)[1]
           /\ PassedAt(c)[1] < PassedAt(answered.client_id)[2]

\* the content is not a JSON list of exactly 10 numbers
Malformed(content) ==
    \/ content.kind # "list"
    \/ Len(content.items) # RecordLength
    \/ \E k \in DOMAIN content.items : content.items[k] # "number"

\* C12: an upload that passed the size check and the throttle and whose content is
\* malformed (not JSON, not a list, not exactly 10 elements, or an element that is
\* not numeric) is answered 400, not 500, and the classifier is not invoked.
C12_MalformedUploadIs400 ==
    ( /\ answered.status # 0
      /\ answered.content # <<>>
      /\ Malformed(answered.content[1]) ) =>
        /\ answered.status = 400
        /\ ~answered.predicted

(***************************************************************************)
(* Search claims                                                           *)
(***************************************************************************)
\* C13: with the search credential configured, when the search API answers with a
\* status other than 200, POST /api/search-policies answers with that same status;
\* it answers 500 only for a missing credential or an unexpected error (a transport
\* error that is no timeout, a body that is not JSON, an upstream 500 passed through),
\* and 504 only for a transport timeout.
C13_UpstreamStatusPassthrough ==
    search.pc = "responded" =>
        /\ ( /\ search.configured
             /\ search.upstream # <<>>
             /\ search.upstream[1].kind = "response"
             /\ search.upstream[1].status_code # 200 ) =>
               search.response.status = search.upstream[1].status_code
        /\ search.response.status = 504 =>
               (search.upstream # <<>> /\ search.upstream[1].kind = "timeout")
        /\ search.response.status = 500 =>
               \/ ~search.configured
               \/ search.upstream[1].kind = "network"
               \/ search.upstream[1].kind = "response" /\ ~search.upstream[1].json
                    /\ search.upstream[1].status_code = 200
               \/ search.upstream[1].kind = "response"
                    /\ search.upstream[1].status_code = 500

====
